---------------------------- MODULE Spec2Model ----------------------------
(***************************************************************************)
(* A model of password_strength.py: the detectors charset_size,            *)
(* entropy_bits, has_long_repeat and has_sequence as operators, and        *)
(* assess_password as a sequence of steps over its local variables.        *)
(*                                                                         *)
(* A character is a one-character string; a character outside ASCII is     *)
(* written by its code point ("U+0130").  A text is a sequence of          *)
(* characters.  Floating point values (bits, base and the working score)   *)
(* are fixed point numbers in millionths (Micro).                          *)
(***************************************************************************)
EXTENDS Integers, Sequences, FiniteSets, TLC

(***************************************************************************)
(* Characters                                                              *)
(***************************************************************************)

\* The printable ASCII characters in code order: Printable[i] has code 31 + i.
\* The grave accent (code 96) is written "U+0060".
Printable ==
    <<" ", "!", "\"", "#", "$", "%", "&", "'", "(", ")", "*", "+", ",", "-",
      ".", "/", "0", "1", "2", "3", "4", "5", "6", "7", "8", "9", ":", ";",
      "<", "=", ">", "?", "@", "A", "B", "C", "D", "E", "F", "G", "H", "I",
      "J", "K", "L", "M", "N", "O", "P", "Q", "R", "S", "T", "U", "V", "W",
      "X", "Y", "Z", "[", "\\", "]", "^", "_", "U+0060", "a", "b", "c", "d", "e",
      "f", "g", "h", "i", "j", "k", "l", "m", "n", "o", "p", "q", "r", "s",
      "t", "u", "v", "w", "x", "y", "z", "{", "|", "}", "~">>

\* The characters outside printable ASCII that the model knows, with their codes:
\* line feed, e-acute, capital I with dot above, combining dot above,
\* the Arabic-Indic digits one to four, and the Kelvin sign.
OtherCodes ==
    [c \in {"\n", "U+00E9", "U+0130", "U+0307",
            "U+0661", "U+0662", "U+0663", "U+0664", "U+212A"} |->
        CASE c = "\n"     -> 10
          [] c = "U+00E9" -> 233
          [] c = "U+0130" -> 304
          [] c = "U+0307" -> 775
          [] c = "U+0661" -> 1633
          [] c = "U+0662" -> 1634
          [] c = "U+0663" -> 1635
          [] c = "U+0664" -> 1636
          [] c = "U+212A" -> 8490]

Chars == {Printable[i] : i \in 1..Len(Printable)} \cup DOMAIN OtherCodes

\* ord(c), as a table over Chars.
OrdTable ==
    [c \in Chars |->
        IF c \in DOMAIN OtherCodes
        THEN OtherCodes[c]
        ELSE 31 + (CHOOSE i \in 1..Len(Printable) : Printable[i] = c)]

ord(c) == OrdTable[c]

chr(n) == Printable[n - 31]

\* str.lower() of one character: a text, because U+0130 lowers to two characters.
LowerTable ==
    [c \in Chars |->
        CASE ord(c) \in 65..90 -> <<chr(ord(c) + 32)>>
          [] c = "U+212A"      -> <<"k">>
          [] c = "U+0130"      -> <<"i", "U+0307">>
          [] OTHER             -> <<c>>]

RECURSIVE lower(_)
lower(s) == IF s = <<>> THEN <<>> ELSE LowerTable[Head(s)] \o lower(Tail(s))

SYMBOLS ==
    <<"~", "U+0060", "!", "@", "#", "$", "%", "^", "&", "*", "(", ")", "-", "_",
      "=", "+", "[", "{", "]", "}", "\\", "|", ";", ":", "'", "\"", ",", "<",
      ".", ">", "/", "?">>

COMMON_PASSWORDS ==
    { <<"1", "2", "3", "4", "5", "6">>,
      <<"p", "a", "s", "s", "w", "o", "r", "d">>,
      <<"1", "2", "3", "4", "5", "6", "7", "8">>,
      <<"q", "w", "e", "r", "t", "y">>,
      <<"a", "b", "c", "1", "2", "3">>,
      <<"1", "1", "1", "1", "1", "1">>,
      <<"1", "2", "3", "4", "5", "6", "7">>,
      <<"d", "r", "a", "g", "o", "n">>,
      <<"1", "2", "3", "1", "2", "3">>,
      <<"b", "a", "s", "e", "b", "a", "l", "l">>,
      <<"i", "l", "o", "v", "e", "y", "o", "u">>,
      <<"t", "r", "u", "s", "t", "n", "o", "1">>,
      <<"l", "e", "t", "m", "e", "i", "n">>,
      <<"s", "u", "n", "s", "h", "i", "n", "e">>,
      <<"m", "a", "s", "t", "e", "r">>,
      <<"w", "e", "l", "c", "o", "m", "e">>,
      <<"s", "h", "a", "d", "o", "w">>,
      <<"a", "s", "h", "l", "e", "y">>,
      <<"f", "o", "o", "t", "b", "a", "l", "l">>,
      <<"j", "e", "s", "u", "s">>,
      <<"m", "i", "c", "h", "a", "e", "l">> }

(***************************************************************************)
(* The regular expressions of the source, by what they match               *)
(***************************************************************************)

\* re.search(r'[a-z]', s)
SearchLower(s) == \E i \in 1..Len(s) : ord(s[i]) \in 97..122

\* re.search(r'[A-Z]', s)
SearchUpper(s) == \E i \in 1..Len(s) : ord(s[i]) \in 65..90

\* re.search(r'\d', s): on text \d is any Unicode decimal digit.
SearchDigit(s) ==
    \E i \in 1..Len(s) : ord(s[i]) \in 48..57 \/ ord(s[i]) \in 1632..1641

\* re.search(r'[' + re.escape(SYMBOLS) + r']', s)
SearchSymbol(s) ==
    \E i \in 1..Len(s) : \E k \in 1..Len(SYMBOLS) : s[i] = SYMBOLS[k]

\* One character of [a-z0-9].
IsAlnum(c) == ord(c) \in 97..122 \/ ord(c) \in 48..57

\* re.match(r'^[a-z0-9]+$', sub): $ also matches before a final line feed.
MatchAlnum(sub) ==
    \/ /\ Len(sub) >= 1
       /\ \A k \in 1..Len(sub) : IsAlnum(sub[k])
    \/ /\ Len(sub) >= 2
       /\ sub[Len(sub)] = "\n"
       /\ \A k \in 1..(Len(sub) - 1) : IsAlnum(sub[k])

\* The regular expression '.' matches every character but the line feed.
MatchDot(c) == c # "\n"

(***************************************************************************)
(* Fixed point arithmetic for the floating point values                    *)
(***************************************************************************)

Micro == 1000 * 1000

Max(a, b) == IF a >= b THEN a ELSE b

Min(a, b) == IF a <= b THEN a ELSE b

\* math.log2 of the alphabet sizes charset_size can return, in millionths.
Log2Micro ==
    [n \in {1, 10, 26, 32, 36, 42, 52, 58, 62, 68, 84, 94} |->
        CASE n = 1  -> 0
          [] n = 10 -> 3321928
          [] n = 26 -> 4700440
          [] n = 32 -> 5000000
          [] n = 36 -> 5169925
          [] n = 42 -> 5392317
          [] n = 52 -> 5700440
          [] n = 58 -> 5857981
          [] n = 62 -> 5954196
          [] n = 68 -> 6087463
          [] n = 84 -> 6392317
          [] n = 94 -> 6554589]

\* round(x, nd) of a value x in millionths, as a number of units of `unit'
\* millionths; a tie goes to the even neighbour.
RoundTo(x, unit) ==
    LET q == x \div unit
        r == x % unit
    IN  IF 2 * r > unit \/ (2 * r = unit /\ q % 2 = 1) THEN q + 1 ELSE q

(***************************************************************************)
(* The detectors                                                           *)
(***************************************************************************)

\* charset_size without its final max(size, 1).
charset_size_unfloored(password) ==
    LET s1 == IF SearchLower(password) THEN 26 ELSE 0
        s2 == s1 + (IF SearchUpper(password) THEN 26 ELSE 0)
        s3 == s2 + (IF SearchDigit(password) THEN 10 ELSE 0)
        s4 == s3 + (IF SearchSymbol(password) THEN 32 ELSE 0)
    IN  s4

charset_size(password) ==
    LET s1 == IF SearchLower(password) THEN 26 ELSE 0
        s2 == s1 + (IF SearchUpper(password) THEN 26 ELSE 0)
        s3 == s2 + (IF SearchDigit(password) THEN 10 ELSE 0)
        s4 == s3 + (IF SearchSymbol(password) THEN 32 ELSE 0)
    IN  Max(s4, 1)

entropy_bits(password) ==
    LET len   == Len(password)
        csize == charset_size(password)
    IN  IF csize > 1 THEN len * Log2Micro[csize] ELSE 0

\* re.search(r'(.)\1{n-1,}', password): a character that '.' matches, followed
\* by at least n-1 copies of itself.
has_long_repeat(password, repeat_threshold) ==
    \E i \in 1..Len(password) :
        /\ MatchDot(password[i])
        /\ i + repeat_threshold - 1 <= Len(password)
        /\ \A k \in 1..(repeat_threshold - 1) : password[i + k] = password[i]

\* One pass of the loop body of has_sequence on the window that starts at i
\* (1-based), then the rest of the loop.
\* The loop of has_sequence with the descending test left out.
RECURSIVE has_sequence_ascending_from(_, _, _)
has_sequence_ascending_from(s, i, seq_len) ==
    IF i > Len(s) - seq_len + 1
    THEN FALSE
    ELSE LET sub == SubSeq(s, i, i + seq_len - 1)
         IN  IF ~MatchAlnum(sub)
             THEN has_sequence_ascending_from(s, i + 1, seq_len)
             ELSE LET ords  == [k \in 1..seq_len |-> ord(sub[k])]
                      diffs == [k \in 1..(seq_len - 1) |-> ords[k + 1] - ords[k]]
                  IN  IF \A k \in DOMAIN diffs : diffs[k] = 1
                      THEN TRUE
                      ELSE has_sequence_ascending_from(s, i + 1, seq_len)

RECURSIVE has_sequence_from(_, _, _)
has_sequence_from(s, i, seq_len) ==
    IF i > Len(s) - seq_len + 1
    THEN FALSE
    ELSE LET sub == SubSeq(s, i, i + seq_len - 1)
         IN  IF ~MatchAlnum(sub)
             THEN has_sequence_from(s, i + 1, seq_len)
             ELSE LET ords  == [k \in 1..seq_len |-> ord(sub[k])]
                      diffs == [k \in 1..(seq_len - 1) |-> ords[k + 1] - ords[k]]
                  IN  IF \/ \A k \in DOMAIN diffs : diffs[k] = 1
                         \/ \A k \in DOMAIN diffs : diffs[k] = -1
                      THEN TRUE
                      ELSE has_sequence_from(s, i + 1, seq_len)

\* has_sequence that finds ascending sequences only.
has_sequence_ascending(password, seq_len) ==
    has_sequence_ascending_from(lower(password), 1, seq_len)

has_sequence(password, seq_len) ==
    has_sequence_from(lower(password), 1, seq_len)

(***************************************************************************)
(* The pieces of assess_password                                           *)
(***************************************************************************)

REPEAT_THRESHOLD == 4

SEQ_LEN == 4

\* base = min(60, (bits / 60) * 60) if bits > 0 else 0
BaseScore(b) == IF b > 0 THEN Min(60 * Micro, b) ELSE 0

CountClasses(password) ==
      (IF SearchLower(password) THEN 1 ELSE 0)
    + (IF SearchUpper(password) THEN 1 ELSE 0)
    + (IF SearchDigit(password) THEN 1 ELSE 0)
    + (IF SearchSymbol(password) THEN 1 ELSE 0)

ClassBonus(c) == Max((c - 1) * 5, 0)

LengthBonus(len) ==
    IF len >= 16 THEN 15
    ELSE IF len >= 12 THEN 10
    ELSE IF len >= 8 THEN 5
    ELSE 0

\* The membership test without the lower().
IsCommonCaseSensitive(password) == password \in COMMON_PASSWORDS

\* password.lower() in COMMON_PASSWORDS
IsCommon(password) == lower(password) \in COMMON_PASSWORDS

\* The low charset test with < for <=.
LowCharsetStrict(sz) == sz < 26

\* size <= 26
LowCharset(sz) == sz <= 26

\* The penalty added instead of subtracted.
AddPenalty(sc, pen) == sc + pen * Micro

\* score = score - penalty
ApplyPenalty(sc, pen) == sc - pen * Micro

\* The normalization without its max(0, ...).
NormalizeNoFloor(sc) == Min(100, RoundTo(sc, Micro))

\* score = max(0, min(100, int(round(score))))
Normalize(sc) == Max(0, Min(100, RoundTo(sc, Micro)))

\* The label mapping with <= for <.
LabelOfInclusive(sc) ==
    IF sc <= 20 THEN "Very weak"
    ELSE IF sc <= 40 THEN "Weak"
    ELSE IF sc <= 60 THEN "Fair"
    ELSE IF sc <= 80 THEN "Strong"
    ELSE "Very strong"

LabelOf(sc) ==
    IF sc < 20 THEN "Very weak"
    ELSE IF sc < 40 THEN "Weak"
    ELSE IF sc < 60 THEN "Fair"
    ELSE IF sc < 80 THEN "Strong"
    ELSE "Very strong"

AppendIf(list, cond, msg) == IF cond THEN Append(list, msg) ELSE list

\* The length check of the suggestions with <= for <.
NeedsLengthInclusive(len) == len <= 12

\* L < 12
NeedsLength(len) == len < 12

MakeSuggestions(password, len) ==
    LET g1 == AppendIf(<<>>, NeedsLength(len),
                       "Make it longer (12+ characters recommended).")
        g2 == AppendIf(g1, ~SearchUpper(password), "Add uppercase letters.")
        g3 == AppendIf(g2, ~SearchLower(password), "Add lowercase letters.")
        g4 == AppendIf(g3, ~SearchDigit(password), "Add digits.")
        g5 == AppendIf(g4, ~SearchSymbol(password),
                       "Add special characters (e.g., !@#$%).")
        g6 == AppendIf(g5, has_long_repeat(password, REPEAT_THRESHOLD),
                       "Avoid long repeated characters.")
        g7 == AppendIf(g6, has_sequence(password, SEQ_LEN),
                       "Avoid simple sequences like 'abcd' or '1234'.")
        g8 == AppendIf(g7, IsCommon(password),
                       "Don't use common passwords (e.g., 'password', '123456').")
    IN  g8

(***************************************************************************)
(* The inputs                                                              *)
(***************************************************************************)

\* How many characters the caller appends to a password between calls.
MaxAppend == 2

\* The texts the caller first passes.
SeedPasswords ==
    { <<>>,
      <<"p", "a", "s", "s", "w", "o", "r", "d">>,
      <<"P", "A", "S", "S", "W", "O", "R", "D">>,
      <<"p", "a", "s", "s", "w", "o", "r", "d", "1">>,
      <<"1", "2", "3", "4", "5", "6">>,
      <<"a", "b", "c">>,
      <<"d", "c", "b">>,
      <<"a", "a", "a">>,
      <<"\n", "\n", "\n">>,
      <<"x", "y", "z">>,
      <<"a", "b", "1", "!">>,
      <<"1", "2", "3", "5">>,
      <<"1", "2", "3">>,
      <<"h", "i", "j", "U+212A">>,
      <<"U+0130", "b", "c">>,
      <<"U+0661", "U+0662", "U+0663", "U+0664">>,
      <<"T", "r", "0", "u", "b", "4", "d", "o", "r", "X", "q">>,
      <<"a", "B", "3">>,
      <<"q", "w", "e", "r", "t", "y">>,
      <<"A", "b", "c", "d", "e", "f", "g", "h", "1", "j", "k", "l">> }

\* The characters the caller appends.
AppendChars == {"a", "d", "D", "4", "{", "\n"}

\* The values that are not text: an integer, None, and a bytes object.
NonTextInputs ==
    { [type |-> "int", value |-> <<>>],
      [type |-> "NoneType", value |-> <<>>],
      [type |-> "bytes", value |-> <<"p", "a", "s", "s", "w", "o", "r", "d">>] }

Inputs == {[type |-> "str", value |-> v] : v \in SeedPasswords} \cup NonTextInputs

Suffixes(n) == UNION {[1..k -> AppendChars] : k \in 1..n}

(***************************************************************************)
(* State                                                                   *)
(***************************************************************************)

VARIABLES
    password,       \* the argument of assess_password: [type, value]
    pc,             \* the position in assess_password
    L, bits, size, base, classes, class_bonus, length_bonus,
    score,          \* in millionths up to the subtraction of the penalty,
                    \* an integer once normalized
    penalty, reasons, label, suggestions,
    result,         \* the returned dict, or NoResult
    prev,           \* the dict the previous call returned, or NoResult
    suffix,         \* what the caller appended since the previous call
    appended        \* how many characters the caller appended so far

locals == <<L, bits, size, base, classes, class_bonus, length_bonus,
            score, penalty, reasons, label, suggestions>>

caller == <<prev, suffix, appended>>

vars == <<password, pc, locals, result, caller>>

NoResult == [score |-> -1]

Fresh ==
    /\ L = 0 /\ bits = 0 /\ size = 0 /\ base = 0 /\ classes = 0
    /\ class_bonus = 0 /\ length_bonus = 0 /\ score = 0 /\ penalty = 0
    /\ reasons = <<>> /\ label = "" /\ suggestions = <<>>

Init ==
    /\ password \in Inputs
    /\ pc = "check_type"
    /\ Fresh
    /\ result = NoResult
    /\ prev = NoResult
    /\ suffix = <<>>
    /\ appended = 0

(***************************************************************************)
(* assess_password, step by step                                           *)
(***************************************************************************)

\* A type check that lets bytes through as well.
IsTextOrBytes(p) == p.type \in {"str", "bytes"}

\* isinstance(password, str)
IsText(p) == p.type = "str"

\* if not isinstance(password, str): raise TypeError(...)
CheckType ==
    /\ pc = "check_type"
    /\ pc' = IF IsText(password) THEN "positives" ELSE "raised"
    /\ UNCHANGED <<password, locals, result, caller>>

\* L, bits, size, base, the class bonus, the length bonus and their sum.
Positives ==
    /\ pc = "positives"
    /\ LET pw == password.value
           b  == entropy_bits(pw)
           c  == CountClasses(pw)
       IN  /\ L' = Len(pw)
           /\ bits' = b
           /\ size' = charset_size(pw)
           /\ base' = BaseScore(b)
           /\ classes' = c
           /\ class_bonus' = ClassBonus(c)
           /\ length_bonus' = LengthBonus(Len(pw))
           /\ score' = BaseScore(b) + (ClassBonus(c) + LengthBonus(Len(pw))) * Micro
    /\ pc' = "pen_common"
    /\ UNCHANGED <<password, penalty, reasons, label, suggestions, result, caller>>

\* 1) common password
PenaltyCommon ==
    /\ pc = "pen_common"
    /\ IF IsCommon(password.value)
       THEN /\ penalty' = penalty + 40
            /\ reasons' = Append(reasons, "Very common password")
       ELSE UNCHANGED <<penalty, reasons>>
    /\ pc' = "pen_short"
    /\ UNCHANGED <<password, L, bits, size, base, classes, class_bonus,
                   length_bonus, score, label, suggestions, result, caller>>

\* 2) too short
PenaltyShort ==
    /\ pc = "pen_short"
    /\ IF L < 8
       THEN /\ penalty' = penalty + (8 - L) * 3
            /\ reasons' = Append(reasons, "Too short (recommend >= 12 chars)")
       ELSE UNCHANGED <<penalty, reasons>>
    /\ pc' = "pen_repeat"
    /\ UNCHANGED <<password, L, bits, size, base, classes, class_bonus,
                   length_bonus, score, label, suggestions, result, caller>>

\* 3) long repeats
PenaltyRepeat ==
    /\ pc = "pen_repeat"
    /\ IF has_long_repeat(password.value, REPEAT_THRESHOLD)
       THEN /\ penalty' = penalty + 15
            /\ reasons' = Append(reasons, "Long repeated characters")
       ELSE UNCHANGED <<penalty, reasons>>
    /\ pc' = "pen_sequence"
    /\ UNCHANGED <<password, L, bits, size, base, classes, class_bonus,
                   length_bonus, score, label, suggestions, result, caller>>

\* 4) simple sequences
PenaltySequence ==
    /\ pc = "pen_sequence"
    /\ IF has_sequence(password.value, SEQ_LEN)
       THEN /\ penalty' = penalty + 20
            /\ reasons' = Append(reasons, "Sequence detected (e.g., 'abcd' or '1234')")
       ELSE UNCHANGED <<penalty, reasons>>
    /\ pc' = "pen_charset"
    /\ UNCHANGED <<password, L, bits, size, base, classes, class_bonus,
                   length_bonus, score, label, suggestions, result, caller>>

\* 5) low charset
PenaltyCharset ==
    /\ pc = "pen_charset"
    /\ IF LowCharset(size)
       THEN /\ penalty' = penalty + 10
            /\ reasons' = Append(reasons, "Limited character variety")
       ELSE UNCHANGED <<penalty, reasons>>
    /\ pc' = "normalize"
    /\ UNCHANGED <<password, L, bits, size, base, classes, class_bonus,
                   length_bonus, score, label, suggestions, result, caller>>

\* Apply the penalty, normalize the score to 0..100 and map it to its label.
NormalizeAndLabel ==
    /\ pc = "normalize"
    /\ LET final == Normalize(ApplyPenalty(score, penalty))
       IN  /\ score' = final
           /\ label' = LabelOf(final)
    /\ pc' = "suggest"
    /\ UNCHANGED <<password, L, bits, size, base, classes, class_bonus,
                   length_bonus, penalty, reasons, suggestions, result, caller>>

\* The suggestions, the details and the return.
SuggestAndReturn ==
    /\ pc = "suggest"
    /\ LET sg == MakeSuggestions(password.value, L)
       IN  /\ suggestions' = sg
           /\ result' =
                [score       |-> score,
                 label       |-> label,
                 suggestions |-> sg,
                 details     |->
                    [length              |-> L,
                     charset_size        |-> size,
                     entropy_bits        |-> RoundTo(bits, 10000),
                     classes             |-> classes,
                     base_entropy_score  |-> RoundTo(base, 10000),
                     class_bonus         |-> class_bonus,
                     length_bonus        |-> length_bonus,
                     penalty             |-> penalty,
                     reasons_for_penalty |-> reasons]]
    /\ pc' = "done"
    /\ UNCHANGED <<password, L, bits, size, base, classes, class_bonus,
                   length_bonus, score, penalty, reasons, label, caller>>

\* The caller appends s to the password it passed and calls assess_password
\* again, keeping the previous result to compare with.
CallAgain(s) ==
    /\ pc = "done"
    /\ appended + Len(s) <= MaxAppend
    /\ password' = [password EXCEPT !.value = @ \o s]
    /\ prev' = result
    /\ suffix' = s
    /\ appended' = appended + Len(s)
    /\ pc' = "check_type"
    /\ L' = 0 /\ bits' = 0 /\ size' = 0 /\ base' = 0 /\ classes' = 0
    /\ class_bonus' = 0 /\ length_bonus' = 0 /\ score' = 0 /\ penalty' = 0
    /\ reasons' = <<>> /\ label' = "" /\ suggestions' = <<>>
    /\ result' = NoResult

Next ==
    \/ CheckType
    \/ Positives
    \/ PenaltyCommon
    \/ PenaltyShort
    \/ PenaltyRepeat
    \/ PenaltySequence
    \/ PenaltyCharset
    \/ NormalizeAndLabel
    \/ SuggestAndReturn
    \/ \E s \in Suffixes(MaxAppend) : CallAgain(s)

Spec == Init /\ [][Next]_vars

(***************************************************************************)
(* Properties                                                              *)
(***************************************************************************)

Contains(list, x) == \E i \in DOMAIN list : list[i] = x

IsStr == password.type = "str"

Returned == pc = "done"

ReasonCommon == "Very common password"

ReasonShort == "Too short (recommend >= 12 chars)"

ReasonRepeat == "Long repeated characters"

ReasonSequence == "Sequence detected (e.g., 'abcd' or '1234')"

ReasonCharset == "Limited character variety"

\* The working score of the current call, before the penalty, in millionths.
WorkingScore == base + (class_bonus + length_bonus) * Micro

\* C1: every returned score is an integer in 0..100, also when the penalty
\* exceeds the working score, and the label is the one its band gives:
\* below 20 Very weak, 20..39 Weak, 40..59 Fair, 60..79 Strong, from 80 Very strong.
C1_ScoreInRangeLabelByBand ==
    Returned =>
        /\ result.score \in 0..100
        /\ result.label =
             CASE result.score \in 0..19   -> "Very weak"
               [] result.score \in 20..39  -> "Weak"
               [] result.score \in 40..59  -> "Fair"
               [] result.score \in 60..79  -> "Strong"
               [] result.score \in 80..100 -> "Very strong"

\* A call whose penalty exceeds its working score returned 0.
C1_Witness ==
    /\ Returned
    /\ WorkingScore - penalty * Micro < 0
    /\ result.score = 0
    /\ result.label = "Very weak"

\* C2 as stated: a score of exactly 20 is labelled Fair, and a score of
\* exactly 80 is labelled Very strong.
C2_Score20IsFair ==
    Returned =>
        /\ (result.score = 20 => result.label = "Fair")
        /\ (result.score = 80 => result.label = "Very strong")

\* C2 amended: a score of exactly 20 is labelled Weak (20 is the inclusive
\* lower bound of the Weak band), and a score of exactly 80 Very strong.
C2_Score20IsWeak ==
    Returned =>
        /\ (result.score = 20 => result.label = "Weak")
        /\ (result.score = 80 => result.label = "Very strong")

\* A call returned a score of exactly 20.
C2_Witness ==
    /\ Returned
    /\ result.score = 20
    /\ result.label = "Weak"

\* C3: the call raises the type error exactly when the argument is not text,
\* it does so before any processing and without a result; a text argument
\* never raises, is processed to the end and returns a full result.
C3_TypeErrorIffNotText ==
    /\ (pc = "raised" => ~IsStr /\ Fresh /\ result = NoResult)
    /\ (~IsStr => pc \in {"check_type", "raised"} /\ Fresh /\ result = NoResult)
    /\ (IsStr => pc # "raised")
    /\ (IsStr /\ pc # "done" => ENABLED Next)
    /\ (Returned =>
          /\ IsStr
          /\ DOMAIN result = {"score", "label", "suggestions", "details"}
          /\ result.details.length = Len(password.value))

\* A bytes object was rejected.
C3_Witness ==
    /\ pc = "raised"
    /\ password.type = "bytes"
    /\ result = NoResult

\* C4: the common-password penalty (+40 and its reason) is triggered exactly
\* when the lower-cased password is an entry of COMMON_PASSWORDS: 'password'
\* and 'PASSWORD' trigger it, 'password1' does not.
C4_CommonIffExactMatch ==
    /\ (pc = "pen_short" =>
          IF lower(password.value) \in COMMON_PASSWORDS
          THEN penalty = 40 /\ reasons = <<ReasonCommon>>
          ELSE penalty = 0 /\ reasons = <<>>)
    /\ (Returned =>
          /\ Contains(result.details.reasons_for_penalty, ReasonCommon)
               <=> lower(password.value) \in COMMON_PASSWORDS
          /\ password.value \in {<<"p", "a", "s", "s", "w", "o", "r", "d">>,
                                 <<"P", "A", "S", "S", "W", "O", "R", "D">>}
               => Contains(result.details.reasons_for_penalty, ReasonCommon)
          /\ password.value = <<"p", "a", "s", "s", "w", "o", "r", "d", "1">>
               => ~Contains(result.details.reasons_for_penalty, ReasonCommon))

\* 'PASSWORD' was assessed and got the common-password penalty.
C4_Witness ==
    /\ Returned
    /\ password.value = <<"P", "A", "S", "S", "W", "O", "R", "D">>
    /\ Contains(result.details.reasons_for_penalty, ReasonCommon)
    /\ result.details.penalty >= 40

\* C5 as stated: the empty password returns a low score with the 'Too short'
\* reason, penalty = 24, charset_size = 1 and entropy_bits = 0.0.
C5_EmptyPenalty24 ==
    (Returned /\ password.value = <<>>) =>
        /\ result.score < 20
        /\ Contains(result.details.reasons_for_penalty, ReasonShort)
        /\ result.details.penalty = 24
        /\ result.details.charset_size = 1
        /\ result.details.entropy_bits = 0

\* C5 amended: the empty password returns score 0 with the 'Too short' reason,
\* which adds 24, and the 'Limited character variety' reason, which adds 10:
\* penalty = 34, charset_size = 1 and entropy_bits = 0.0.
C5_EmptyPenalty34 ==
    /\ (pc = "pen_repeat" /\ IsStr /\ password.value = <<>> =>
          penalty = 24 /\ reasons = <<ReasonShort>>)
    /\ (Returned /\ password.value = <<>> =>
          /\ result.score = 0
          /\ result.label = "Very weak"
          /\ result.details.reasons_for_penalty = <<ReasonShort, ReasonCharset>>
          /\ result.details.penalty = 34
          /\ result.details.charset_size = 1
          /\ result.details.entropy_bits = 0)

\* The empty password was assessed.
C5_Witness ==
    /\ Returned
    /\ password.value = <<>>
    /\ result.details.penalty = 34

\* Every penalty reason of the current result is one of the previous result.
NoNewReason ==
    \A i \in DOMAIN result.details.reasons_for_penalty :
        Contains(prev.details.reasons_for_penalty,
                 result.details.reasons_for_penalty[i])

\* C6: when the caller appends a non-empty suffix and the longer password
\* triggers no penalty reason that the shorter one did not trigger, the score
\* of the longer password is at least the score of the shorter one.
C6_AppendingNeverLowersScore ==
    (Returned /\ prev # NoResult /\ suffix # <<>> /\ NoNewReason) =>
        result.score >= prev.score

\* A suffix of distinct characters was appended, no new reason came up, and
\* the score rose.
C6_Witness ==
    /\ Returned
    /\ prev # NoResult
    /\ Len(suffix) = 2
    /\ suffix[1] # suffix[2]
    /\ NoNewReason
    /\ prev.details.reasons_for_penalty # <<>>
    /\ result.score > prev.score

\* Some window of n characters of s is all in [a-z0-9] and its codes all
\* ascend by one or all descend by one.
SequenceWindow(s, n) ==
    \E i \in 1..(Len(s) - n + 1) :
        /\ \A k \in 0..(n - 1) : IsAlnum(s[i + k])
        /\ \/ \A k \in 0..(n - 2) : ord(s[i + k + 1]) = ord(s[i + k]) + 1
           \/ \A k \in 0..(n - 2) : ord(s[i + k + 1]) = ord(s[i + k]) - 1

\* C7: has_sequence(password, 4) holds exactly when some window of 4
\* characters of the lower-cased password is all in [a-z0-9] and ascends or
\* descends by one per step; a password shorter than 4 gives false; '1234' and
\* 'dcba' give true, '1235' and 'ab1!' false.
C7_SequenceIffWindow ==
    IsStr =>
        LET pw == password.value
        IN  /\ has_sequence(pw, 4) <=> SequenceWindow(lower(pw), 4)
            /\ Len(pw) < 4 => ~has_sequence(pw, 4)
            /\ pw \in {<<"1", "2", "3", "4">>, <<"d", "c", "b", "a">>}
                 => has_sequence(pw, 4)
            /\ pw \in {<<"1", "2", "3", "5">>, <<"a", "b", "1", "!">>}
                 => ~has_sequence(pw, 4)
            /\ Returned =>
                 (Contains(result.details.reasons_for_penalty, ReasonSequence)
                    <=> SequenceWindow(lower(pw), 4))

\* 'dcba' was assessed and its descending sequence detected.
C7_Witness ==
    /\ Returned
    /\ password.value = <<"d", "c", "b", "a">>
    /\ Contains(result.details.reasons_for_penalty, ReasonSequence)

\* Some character of s, whatever it is, stands at n consecutive positions.
RunOf(s, n) ==
    \E i \in 1..(Len(s) - n + 1) : \A k \in 1..(n - 1) : s[i + k] = s[i]

\* C8: has_long_repeat(password, 4) holds exactly when some single character,
\* whatever character it is, occurs at 4 or more consecutive positions.
C8_RepeatIffRun ==
    IsStr => (has_long_repeat(password.value, 4) <=> RunOf(password.value, 4))

\* The messages of the suggestion checks in their order, each with its condition.
SuggestionChecks ==
    LET pw == password.value
    IN  << [on  |-> Len(pw) < 12,
            msg |-> "Make it longer (12+ characters recommended)."],
           [on  |-> ~\E i \in 1..Len(pw) : ord(pw[i]) \in 65..90,
            msg |-> "Add uppercase letters."],
           [on  |-> ~\E i \in 1..Len(pw) : ord(pw[i]) \in 97..122,
            msg |-> "Add lowercase letters."],
           [on  |-> ~SearchDigit(pw),
            msg |-> "Add digits."],
           [on  |-> ~SearchSymbol(pw),
            msg |-> "Add special characters (e.g., !@#$%)."],
           [on  |-> has_long_repeat(pw, 4),
            msg |-> "Avoid long repeated characters."],
           [on  |-> has_sequence(pw, 4),
            msg |-> "Avoid simple sequences like 'abcd' or '1234'."],
           [on  |-> lower(pw) \in COMMON_PASSWORDS,
            msg |-> "Don't use common passwords (e.g., 'password', '123456')."] >>

IsOn(check) == check.on

MessagesOf(checks) == [i \in 1..Len(checks) |-> checks[i].msg]

\* C9: the suggestions are the messages of exactly the checks whose condition
\* holds, in the fixed order; a password of length >= 12 with all four classes
\* and no repeat, sequence or common-password match gets the empty list.
C9_SuggestionsInOrder ==
    Returned =>
        /\ result.suggestions = MessagesOf(SelectSeq(SuggestionChecks, IsOn))
        /\ (/\ Len(password.value) >= 12
            /\ result.details.classes = 4
            /\ ~has_long_repeat(password.value, 4)
            /\ ~has_sequence(password.value, 4)
            /\ lower(password.value) \notin COMMON_PASSWORDS)
           => result.suggestions = <<>>

\* A password of 12 characters with all four classes got no suggestion.
C9_Witness ==
    /\ Returned
    /\ Len(password.value) = 12
    /\ result.details.classes = 4
    /\ result.suggestions = <<>>

\* The penalties in their order, each with its condition, amount and reason.
PenaltyChecks ==
    LET pw == password.value
    IN  << [on |-> lower(pw) \in COMMON_PASSWORDS, amount |-> 40,
            msg |-> ReasonCommon],
           [on |-> Len(pw) < 8, amount |-> (8 - Len(pw)) * 3,
            msg |-> ReasonShort],
           [on |-> has_long_repeat(pw, 4), amount |-> 15,
            msg |-> ReasonRepeat],
           [on |-> has_sequence(pw, 4), amount |-> 20,
            msg |-> ReasonSequence],
           [on |-> result.details.charset_size <= 26, amount |-> 10,
            msg |-> ReasonCharset] >>

RECURSIVE SumAmounts(_)
SumAmounts(checks) ==
    IF checks = <<>> THEN 0 ELSE Head(checks).amount + SumAmounts(Tail(checks))

\* C10: details.penalty is the sum of the triggered penalties 40, (8 - L) * 3,
\* 15, 20 and 10, reasons_for_penalty holds one reason per triggered penalty in
\* that order, and the score is the working score minus that total, rounded
\* and clamped to 0..100.
C10_PenaltySumAndScore ==
    Returned =>
        LET on    == SelectSeq(PenaltyChecks, IsOn)
            total == SumAmounts(on)
            raw   == RoundTo(WorkingScore - total * Micro, Micro)
        IN  /\ result.details.penalty = total
            /\ result.details.reasons_for_penalty = MessagesOf(on)
            /\ result.score = IF raw < 0 THEN 0 ELSE IF raw > 100 THEN 100 ELSE raw

\* A password that triggers four penalties at once was assessed.
C10_Witness ==
    /\ Returned
    /\ Len(result.details.reasons_for_penalty) = 4
    /\ result.details.penalty = 76

=============================================================================
